---- MODULE Spec2Model ----
(***************************************************************************)
(* PrefixWriter (src/src/lib.rs): a std::io::Write adapter that prefixes   *)
(* every non-empty line written through it.                                *)
(*                                                                         *)
(* Text is modelled as the sequence of its UTF-8 bytes (a Rust String is   *)
(* exactly that).  The wrapped sink is modelled by the trace of what it    *)
(* was asked to do: every byte it accepted, a FLUSH mark for every flush   *)
(* request it accepted and an ERR mark for every request it rejected.      *)
(* Option<String> is a sequence of at most one string: <<>> is None and    *)
(* <<r>> is Some(r).                                                       *)
(***************************************************************************)
EXTENDS Integers, Sequences, FiniteSets, TLC

VARIABLES prefix, writer, remainder, result, log

vars == <<prefix, writer, remainder, result, log>>

----------------------------------------------------------------------------
(* Bounds of the exploration.                                              *)

\* Total number of bytes handed to write over one run.
MaxBytes == 3
\* Number of calls (write, flush, with_prefix, with_writer) in one run.
MaxCalls == 3
\* Number of calls the sink is allowed to reject in one run.
MaxFailures == 1
\* Largest number of bytes a rejected write_all accepts before it fails.
MaxPartial == 1

----------------------------------------------------------------------------
(* Bytes.                                                                  *)

NL == 10
CR == 13
\* A byte that can be part of no UTF-8 sequence.
INVALID == 255
\* Marks of the sink trace (outside the byte range).
FLUSH == 256
ERR == 257

\* U+FFFD REPLACEMENT CHARACTER, as UTF-8.
REPLACEMENT == <<239, 191, 189>>

\* Bytes the caller's buffers are made of: 'a', '\n', '\r' and 0xFF.
InputBytes == {97, NL, CR, INVALID}

\* Prefixes the caller may choose: "", "P>" .
Prefixes == {<<>>, <<80, 62>>}

\* Sinks the caller may hand to with_writer, as the trace they start with:
\* one that already holds "b".
NewSinks == {<<98>>}

None == <<>>
Some(s) == <<s>>

----------------------------------------------------------------------------
(* Helpers on sequences.                                                   *)

RECURSIVE Flatten(_)
Flatten(chunks) ==
    IF chunks = <<>> THEN <<>> ELSE Head(chunks) \o Flatten(Tail(chunks))

RECURSIVE SeqsUpTo(_)
SeqsUpTo(n) ==
    IF n = 0 THEN {<<>>}
    ELSE LET shorter == SeqsUpTo(n - 1)
         IN  shorter \cup {Append(s, b) : s \in shorter, b \in InputBytes}

ends_with(s, b) == s # <<>> /\ s[Len(s)] = b

----------------------------------------------------------------------------
(* String::from_utf8_lossy: ASCII bytes and well-formed two-byte sequences *)
(* are kept, every other byte of the input alphabet is ill-formed on its   *)
(* own and becomes U+FFFD.  (Three- and four-byte sequences are not part   *)
(* of the input alphabet.)                                                 *)
RECURSIVE from_utf8_lossy(_)
from_utf8_lossy(buf) ==
    IF buf = <<>> THEN <<>>
    ELSE IF buf[1] < 128
         THEN <<buf[1]>> \o from_utf8_lossy(Tail(buf))
    ELSE IF /\ buf[1] \in 194..223
            /\ Len(buf) >= 2
            /\ buf[2] \in 128..191
         THEN <<buf[1], buf[2]>> \o from_utf8_lossy(Tail(Tail(buf)))
    ELSE REPLACEMENT \o from_utf8_lossy(Tail(buf))

(* str::lines: split_inclusive('\n'), then from every piece strip the      *)
(* final "\n" and, only if a "\n" was stripped, one final "\r".  The last  *)
(* piece, when it has no "\n", is returned whole.                          *)
RECURSIVE split_inclusive(_)
split_inclusive(s) ==
    IF s = <<>> THEN <<>>
    ELSE LET nls == {i \in 1..Len(s) : s[i] = NL}
         IN  IF nls = {} THEN <<s>>
             ELSE LET i == CHOOSE k \in nls : \A j \in nls : k <= j
                  IN  <<SubSeq(s, 1, i)>> \o split_inclusive(SubSeq(s, i + 1, Len(s)))

\* Fault: a final "\r" is stripped from the unterminated last piece too.
strip_line_any_cr(piece) ==
    LET l == IF ends_with(piece, NL) THEN SubSeq(piece, 1, Len(piece) - 1)
             ELSE piece
    IN  IF ends_with(l, CR) THEN SubSeq(l, 1, Len(l) - 1) ELSE l

strip_line(piece) ==
    IF ~ends_with(piece, NL) THEN piece
    ELSE LET l == SubSeq(piece, 1, Len(piece) - 1)
         IN  IF ends_with(l, CR) THEN SubSeq(l, 1, Len(l) - 1) ELSE l

lines(s) ==
    LET pieces == split_inclusive(s)
    IN  [i \in 1..Len(pieces) |-> strip_line(pieces[i])]

----------------------------------------------------------------------------
(* PrefixWriter::write, step by step.                                      *)

\* Fault: the pending remainder is not put before the new bytes.
write_input_without_remainder(rem, buf) == from_utf8_lossy(buf)

\* lib.rs 26-30: the text the call works on.
write_input(rem, buf) ==
    IF rem # None THEN rem[1] \o from_utf8_lossy(buf) ELSE from_utf8_lossy(buf)

\* lib.rs 37: the loop leaves through `break` on the last line of an input
\* that does not end with '\n'.
write_breaks(input) == lines(input) # <<>> /\ ~ends_with(input, NL)

\* Fault: the loop has no `break`, every line is forwarded.
write_forwards_every_line(input) == Len(lines(input))

\* lib.rs 36-48: the number of lines the loop forwards.
write_forwarded_lines(input) ==
    IF write_breaks(input) THEN Len(lines(input)) - 1 ELSE Len(lines(input))

\* Fault: empty lines are skipped.
write_line_dropping_empty(pfx, line) ==
    IF line # <<>> THEN <<pfx, line, <<NL>>>> ELSE <<>>

\* Fault: the prefix is written for empty lines too.
write_line_always_prefixed(pfx, line) == <<pfx, line, <<NL>>>>

\* lib.rs 42-47: the write_all requests made for one complete line.
write_line(pfx, line) ==
    (IF line # <<>> THEN <<pfx>> ELSE <<>>) \o <<line, <<NL>>>>

\* lib.rs 36-48: the write_all requests of one call, in order.
RECURSIVE write_requests_from(_, _, _, _)
write_requests_from(pfx, ls, i, n) ==
    IF i > n THEN <<>>
    ELSE write_line(pfx, ls[i]) \o write_requests_from(pfx, ls, i + 1, n)

write_requests(pfx, input) ==
    write_requests_from(pfx, lines(input), 1, write_forwarded_lines(input))

\* lib.rs 38: the remainder after a call that met no failure.
write_remainder(rem, input) ==
    IF write_breaks(input) THEN Some(lines(input)[Len(lines(input))]) ELSE rem

\* Fault: the length of the text worked on is returned.
write_return_input_len(buf, input) == Len(input)

\* lib.rs 50: the value of a call that met no failure.
write_return(buf, input) == Len(buf)

----------------------------------------------------------------------------
(* PrefixWriter::flush.                                                    *)

\* Fault: the sink is flushed before the remainder is forwarded.
flush_requests_flush_first(pfx, rem) ==
    <<<<FLUSH>>>> \o (IF rem # None /\ rem[1] # <<>> THEN <<pfx, rem[1]>> ELSE <<>>)

\* Fault: the remainder is forwarded without the prefix.
flush_requests_unprefixed(pfx, rem) ==
    (IF rem # None /\ rem[1] # <<>> THEN <<rem[1]>> ELSE <<>>) \o <<<<FLUSH>>>>

\* Fault: a terminator is added to the remainder.
flush_requests_terminated(pfx, rem) ==
    (IF rem # None /\ rem[1] # <<>> THEN <<pfx, rem[1], <<NL>>>> ELSE <<>>)
        \o <<<<FLUSH>>>>

\* lib.rs 54-61: the requests of one call, in order; the last one is the
\* sink's own flush.
flush_requests(pfx, rem) ==
    (IF rem # None /\ rem[1] # <<>> THEN <<pfx, rem[1]>> ELSE <<>>) \o <<<<FLUSH>>>>

----------------------------------------------------------------------------
(* The sink.  write_all of an empty slice makes no request; a request the  *)
(* sink rejects may first have accepted some bytes.  `?` returns at the    *)
(* first rejected request.                                                 *)

\* Requests of a call that reach the sink: the non-empty ones.
CanFail(reqs) == {i \in 1..Len(reqs) : reqs[i] # <<>>}

\* Fault: the failure is not returned at once, the later requests are made.
forward_past_failure(reqs, failAt, part) ==
    IF failAt = 0 THEN Flatten(reqs)
    ELSE Flatten(SubSeq(reqs, 1, failAt - 1))
           \o SubSeq(reqs[failAt], 1, part) \o <<ERR>>
           \o Flatten(SubSeq(reqs, failAt + 1, Len(reqs)))

\* What the sink records for the requests reqs when request failAt is
\* rejected after part bytes (failAt = 0: nothing is rejected).
forward(reqs, failAt, part) ==
    IF failAt = 0 THEN Flatten(reqs)
    ELSE Flatten(SubSeq(reqs, 1, failAt - 1))
           \o SubSeq(reqs[failAt], 1, part) \o <<ERR>>

Ok(n) == [ok |-> TRUE, n |-> n]
Err == [ok |-> FALSE, n |-> 0]

Call(op, buf, ok) == [op |-> op, buf |-> buf, ok |-> ok]

Failures == Cardinality({i \in 1..Len(log) : ~log[i].ok})

WrittenBytes == Flatten([i \in 1..Len(log) |->
                          IF log[i].op = "write" THEN log[i].buf ELSE <<>>])

\* The failures the sink may choose for the requests reqs.
Outcomes(reqs) ==
    {<<0, 0>>} \cup
    {<<i, k>> : i \in (IF Failures < MaxFailures THEN CanFail(reqs) ELSE {}),
                k \in 0..MaxPartial}

----------------------------------------------------------------------------
(* The adapter.                                                            *)

\* PrefixWriter::new
Init ==
    /\ prefix \in Prefixes
    /\ writer = <<>>
    /\ remainder = None
    /\ result = Ok(0)
    /\ log = <<>>

\* Fault: the remainder is assigned before the lines are forwarded.
Write_remainder_first(buf, failAt, part) ==
    LET input == write_input(remainder, buf)
        reqs  == write_requests(prefix, input)
    IN  /\ failAt > 0 => part < Len(reqs[failAt])
        /\ writer' = writer \o forward(reqs, failAt, part)
        /\ remainder' = write_remainder(remainder, input)
        /\ result' = IF failAt = 0 THEN Ok(write_return(buf, input)) ELSE Err
        /\ log' = Append(log, Call("write", buf, failAt = 0))
        /\ UNCHANGED prefix

Write(buf, failAt, part) ==
    LET input == write_input(remainder, buf)
        reqs  == write_requests(prefix, input)
    IN  /\ failAt > 0 => part < Len(reqs[failAt])
        /\ writer' = writer \o forward(reqs, failAt, part)
        /\ remainder' = IF failAt = 0 THEN write_remainder(remainder, input)
                        ELSE remainder
        /\ result' = IF failAt = 0 THEN Ok(write_return(buf, input)) ELSE Err
        /\ log' = Append(log, Call("write", buf, failAt = 0))
        /\ UNCHANGED prefix

\* Fault: flush takes the remainder it forwards.
Flush_taking_remainder(failAt, part) ==
    LET reqs == flush_requests(prefix, remainder)
    IN  /\ failAt > 0 => part < Len(reqs[failAt])
        /\ writer' = writer \o forward(reqs, failAt, part)
        /\ remainder' = None
        /\ result' = IF failAt = 0 THEN Ok(0) ELSE Err
        /\ log' = Append(log, Call("flush", <<>>, failAt = 0))
        /\ UNCHANGED prefix

Flush(failAt, part) ==
    LET reqs == flush_requests(prefix, remainder)
    IN  /\ failAt > 0 => part < Len(reqs[failAt])
        /\ writer' = writer \o forward(reqs, failAt, part)
        /\ result' = IF failAt = 0 THEN Ok(0) ELSE Err
        /\ log' = Append(log, Call("flush", <<>>, failAt = 0))
        /\ UNCHANGED <<prefix, remainder>>

\* Fault: the adapter is built anew, Self::new(prefix, self.writer).
with_prefix_anew(p) ==
    /\ prefix' = p
    /\ remainder' = None
    /\ log' = Append(log, Call("with_prefix", p, TRUE))
    /\ UNCHANGED <<writer, result>>

\* Self { prefix, ..self }
with_prefix(p) ==
    /\ prefix' = p
    /\ log' = Append(log, Call("with_prefix", p, TRUE))
    /\ UNCHANGED <<writer, remainder, result>>

\* Self { writer, ..self }: w is the trace of the new sink.
with_writer(w) ==
    /\ writer' = w
    /\ log' = Append(log, Call("with_writer", w, TRUE))
    /\ UNCHANGED <<prefix, remainder, result>>

\* One call of the caller: any buffer, and any failure the sink may choose.
DoWrite ==
    /\ Len(log) < MaxCalls
    /\ \E buf \in SeqsUpTo(MaxBytes - Len(WrittenBytes)) :
         \E o \in Outcomes(write_requests(prefix, write_input(remainder, buf))) :
             Write(buf, o[1], o[2])

DoFlush ==
    /\ Len(log) < MaxCalls
    /\ \E o \in Outcomes(flush_requests(prefix, remainder)) : Flush(o[1], o[2])

DoWithPrefix ==
    /\ Len(log) < MaxCalls
    /\ \E p \in Prefixes : with_prefix(p)

DoWithWriter ==
    /\ Len(log) < MaxCalls
    /\ \E w \in NewSinks : with_writer(w)

Next == DoWrite \/ DoFlush \/ DoWithPrefix \/ DoWithWriter

Spec == Init /\ [][Next]_vars

----------------------------------------------------------------------------
(* Vocabulary of the properties.                                           *)

\* The bytes the sink holds.
SinkBytes == SelectSeq(writer, LAMBDA e : e < FLUSH)

LastCall == log[Len(log)]

\* The run so far is exactly the successful calls named, on the adapter
\* as constructed.
Shape(ops) ==
    /\ Len(log) = Len(ops)
    /\ \A i \in 1..Len(ops) : log[i].op = ops[i] /\ log[i].ok

\* The run so far is made of successful write and flush calls only.
PlainRun == \A i \in 1..Len(log) : log[i].op \in {"write", "flush"} /\ log[i].ok

Count(b, s) == Cardinality({i \in 1..Len(s) : s[i] = b})

Has(b, s) == \E i \in 1..Len(s) : s[i] = b

StartsWith(s, p) == Len(s) >= Len(p) /\ SubSeq(s, 1, Len(p)) = p

\* Position of the first and of the last '\n' of s (0: none).
FirstNL(s) == IF Has(NL, s) THEN CHOOSE i \in 1..Len(s) :
                                   s[i] = NL /\ \A j \in 1..(i - 1) : s[j] # NL
              ELSE 0

LastNL(s) == IF Has(NL, s) THEN CHOOSE i \in 1..Len(s) :
                                  s[i] = NL /\ \A j \in (i + 1)..Len(s) : s[j] # NL
             ELSE 0

\* s up to and including its last '\n', and what follows it.
Terminated(s) == SubSeq(s, 1, LastNL(s))
Unterminated(s) == SubSeq(s, LastNL(s) + 1, Len(s))

\* The pieces of s between '\n' bytes, the unterminated last one included
\* when it is not empty.
RECURSIVE SplitNL(_)
SplitNL(s) ==
    IF s = <<>> THEN <<>>
    ELSE IF FirstNL(s) = 0 THEN <<s>>
    ELSE <<SubSeq(s, 1, FirstNL(s) - 1)>> \o SplitNL(SubSeq(s, FirstNL(s) + 1, Len(s)))

\* What the sink is to hold after write(t) and flush on a fresh adapter:
\* every '\n'-terminated line with the prefix (unless the line is empty),
\* the line and one '\n'; then the prefix and the unterminated rest, if any.
RECURSIVE ExpectedOutput(_, _)
ExpectedOutput(pfx, t) ==
    IF t = <<>> THEN <<>>
    ELSE IF FirstNL(t) = 0 THEN pfx \o t
    ELSE LET line == SubSeq(t, 1, FirstNL(t) - 1)
         IN  (IF line # <<>> THEN pfx ELSE <<>>) \o line \o <<NL>>
               \o ExpectedOutput(pfx, SubSeq(t, FirstNL(t) + 1, Len(t)))

\* What one write of buf and one flush on a fresh adapter forward.
OneWriteThenFlush(pfx, buf) ==
    LET input == write_input(None, buf)
        reqs  == write_requests(pfx, input)
            \o flush_requests(pfx, write_remainder(None, input))
    IN  SelectSeq(Flatten(reqs), LAMBDA e : e < FLUSH)

----------------------------------------------------------------------------
\* C1: chunking invariance.  Two successive writes of the two pieces of an
\* input to a fresh adapter, then flush, forward exactly the bytes that one
\* write of the whole input to a fresh adapter, then flush, forwards.
ChunkingInvariance ==
    Shape(<<"write", "write", "flush">>) =>
        SinkBytes = OneWriteThenFlush(prefix, log[1].buf \o log[2].buf)

\* C2: on a fresh adapter, one write of a text and one flush forward, for
\* every '\n'-terminated line of the text in order, the prefix (only if the
\* line is not empty), the line and one '\n'; then, for unterminated
\* trailing content, the prefix and that content, with no terminator.
WriteFlushOutput ==
    Shape(<<"write", "flush">>) =>
        SinkBytes = ExpectedOutput(prefix, from_utf8_lossy(log[1].buf))

\* C3: empty lines are never prefixed.  After writes whose arguments are
\* made of '\n' bytes only, followed by flush, on a fresh adapter, the sink
\* holds exactly the concatenation of the arguments.
EmptyLinesNeverPrefixed ==
    ( /\ Len(log) >= 1
      /\ PlainRun
      /\ \A i \in 1..(Len(log) - 1) : log[i].op = "write"
      /\ LastCall.op = "flush"
      /\ \A i \in 1..Len(WrittenBytes) : WrittenBytes[i] = NL )
    => SinkBytes = WrittenBytes

EmptyLinesWitness ==
    /\ Shape(<<"write", "write", "flush">>)
    /\ prefix # <<>>
    /\ log[1].buf = <<NL, NL>>
    /\ log[2].buf = <<NL>>
    /\ SinkBytes = <<NL, NL, NL>>

\* C4: with a non-empty prefix that holds no '\n', after any sequence of
\* successful write and flush calls every non-empty line of the bytes the
\* sink holds starts with the prefix.
LinesStartWithPrefix ==
    (PlainRun /\ prefix # <<>> /\ ~Has(NL, prefix)) =>
        \A i \in 1..Len(SplitNL(SinkBytes)) :
            SplitNL(SinkBytes)[i] # <<>> => StartsWith(SplitNL(SinkBytes)[i], prefix)

LinesStartWithPrefixWitness ==
    /\ Shape(<<"write", "flush", "write">>)
    /\ prefix # <<>>
    /\ Len(SplitNL(SinkBytes)) >= 2
    /\ \A i \in 1..Len(SplitNL(SinkBytes)) : SplitNL(SinkBytes)[i] # <<>>
    /\ remainder # None

\* C5 as stated: on a fresh adapter, write of an input without '\n' and
\* flush forward exactly the prefix followed by the input when the input is
\* not empty, and nothing when it is empty.
NoNewlineOutputRaw ==
    (Shape(<<"write", "flush">>) /\ ~Has(NL, log[1].buf)) =>
        SinkBytes = IF log[1].buf # <<>> THEN prefix \o log[1].buf ELSE <<>>

\* C5, amended: on a fresh adapter, write of an input without '\n' and
\* flush forward exactly the prefix followed by the lossy UTF-8 decoding of
\* the input (the input itself when it is valid UTF-8) when the input is
\* not empty, and nothing, not even the prefix, when it is empty.
NoNewlineOutput ==
    (Shape(<<"write", "flush">>) /\ ~Has(NL, log[1].buf)) =>
        SinkBytes = IF log[1].buf # <<>>
                    THEN prefix \o from_utf8_lossy(log[1].buf)
                    ELSE <<>>

NoNewlineOutputWitness ==
    /\ Shape(<<"write", "flush">>)
    /\ prefix # <<>>
    /\ log[1].buf = <<97, INVALID, CR>>
    /\ SinkBytes = prefix \o <<97>> \o REPLACEMENT \o <<CR>>

\* C6: a write never forwards an unterminated trailing line.  After one
\* write to a fresh adapter of an input that does not end in '\n', the sink
\* holds terminated lines only, one for every '\n' of the input (for an
\* input without '\r' exactly the prefixed complete lines), and the
\* content after the last '\n' is the pending remainder; a later write
\* that brings no '\n' forwards nothing.
TrailingLineWithheldState ==
    (Shape(<<"write">>) /\ ~ends_with(log[1].buf, NL)) =>
        LET text == from_utf8_lossy(log[1].buf)
        IN  /\ SinkBytes = <<>> \/ ends_with(SinkBytes, NL)
            /\ Count(NL, SinkBytes) = Count(NL, log[1].buf)
            /\ ~Has(CR, log[1].buf) =>
                   SinkBytes = ExpectedOutput(prefix, Terminated(text))
            /\ remainder = IF Unterminated(text) # <<>>
                           THEN Some(Unterminated(text))
                           ELSE None

WriteReturnsLength ==
    (Len(log) >= 1 /\ LastCall.op = "write" /\ LastCall.ok) =>
        result = Ok(Len(LastCall.buf))

WriteReturnsLengthWitness ==
    /\ Len(log) = 2
    /\ log[1].op = "write" /\ log[1].ok
    /\ LastCall.op = "write" /\ LastCall.ok
    /\ LastCall.buf = <<INVALID, NL>>
    /\ log[1].buf = <<97>>
    /\ result = Ok(2)
    /\ Len(SinkBytes) > 2

\* C8: calling flush twice in a row, with no write in between, forwards to
\* the sink the same bytes as calling it once.
FlushTwiceSameBytes ==
    [][ ( /\ Len(log) >= 1
          /\ LastCall.op = "flush"
          /\ LastCall.ok
          /\ log' = Append(log, Call("flush", <<>>, TRUE)) )
        => SinkBytes' = SinkBytes ]_vars

\* C9: when the sink rejects a request during write or flush, the call
\* returns the failure and makes no further request of the sink: the
\* rejected request is the last thing the sink sees of that call.
FailureAborts ==
    [][ \A i \in (Len(writer) + 1)..Len(writer') :
            (Len(log') = Len(log) + 1
             /\ log'[Len(log')].op \in {"write", "flush"}
             /\ writer'[i] = ERR)
            => (i = Len(writer') /\ ~result'.ok /\ ~log'[Len(log')].ok) ]_vars

FailureAbortsWitness ==
    /\ Len(log) = 1
    /\ LastCall.op = "write"
    /\ ~LastCall.ok
    /\ LastCall.buf = <<97, NL, NL>>
    /\ prefix # <<>>
    /\ writer = prefix \o <<ERR>>
    /\ result = Err

\* C10: with_prefix gives the adapter the new prefix and keeps its sink and
\* pending remainder; with_writer gives it the new sink and keeps its
\* prefix and pending remainder.
WithKeepsOtherFields ==
    [][ /\ \A p \in Prefixes :
               log' = Append(log, Call("with_prefix", p, TRUE))
                   => prefix' = p /\ writer' = writer /\ remainder' = remainder
        /\ \A w \in NewSinks :
               log' = Append(log, Call("with_writer", w, TRUE))
                   => writer' = w /\ prefix' = prefix /\ remainder' = remainder
      ]_vars

WithKeepsOtherFieldsWitness ==
    /\ Len(log) = 3
    /\ log[1].op = "write"
    /\ log[2].op = "with_prefix"
    /\ log[3].op = "with_writer"
    /\ prefix # <<>>
    /\ prefix # log[3].buf
    /\ log[2].buf = prefix
    /\ remainder = Some(<<97>>)
    /\ writer = <<98>>

----------------------------------------------------------------------------
(* Vocabulary of the properties about one step.                            *)

\* The step is one call of op, and it succeeded / it failed.
Calls(op) == Len(log') = Len(log) + 1 /\ log'[Len(log')].op = op
Succeeds(op) == Calls(op) /\ log'[Len(log')].ok
Fails(op) == Calls(op) /\ ~log'[Len(log')].ok

\* The argument of the call the step makes.
Arg == log'[Len(log')].buf

\* What the step adds to the trace of the sink, and the bytes among it.
Added == SubSeq(writer', Len(writer) + 1, Len(writer'))
AddedBytes == SelectSeq(Added, LAMBDA e : e < FLUSH)

\* The content of the pending remainder ("" when it is absent).
Pending == IF remainder # None THEN remainder[1] ELSE <<>>

\* C11: after any successful write whose effective input (the pending
\* remainder followed by the new bytes) ends with '\n', the pending
\* remainder is absent.
CompletedLineClearsRemainder ==
    [][ (Succeeds("write") /\ ends_with(Pending \o from_utf8_lossy(Arg), NL))
            => remainder' = None ]_vars

\* C12: after any sequence of successful write and flush calls, a present
\* remainder is exactly what was written since the most recent '\n' of the
\* concatenation of all write arguments.
RemainderIsOpenLine ==
    (PlainRun /\ remainder # None) =>
        remainder[1] = Unterminated(from_utf8_lossy(WrittenBytes))

\* C13: after a write left the non-empty remainder r and a flush forwarded
\* prefix ++ r, the remainder is still r and a following write of b, which
\* ends in '\n' and holds no other '\n', forwards prefix ++ r ++ b.
FlushedRemainderForwardedAgain ==
    [][ ( /\ Len(log) = 2
          /\ Shape(<<"write", "flush">>)
          /\ Succeeds("write")
          /\ Pending # <<>>
          /\ SinkBytes = prefix \o Pending
          /\ Count(NL, Arg) = 1
          /\ ends_with(Arg, NL) )
        => AddedBytes = prefix \o Pending \o from_utf8_lossy(Arg) ]_vars

\* C14: lines are split on '\n' only.  A successful write forwards, for
\* every complete line of its effective input, the prefix (unless the line
\* is empty), the bytes of the line up to its '\n' and the '\n', also when
\* the line ends with '\r'.
LinesSplitOnNewlineOnly ==
    [][ Succeeds("write") =>
            AddedBytes = ExpectedOutput(prefix,
                             Terminated(Pending \o from_utf8_lossy(Arg))) ]_vars

\* C15 as stated: a write of non-empty bytes without '\n' to an adapter
\* whose pending remainder is r forwards nothing and leaves the remainder
\* equal to r followed by the new bytes.
OpenLineGrowsRaw ==
    [][ (Succeeds("write") /\ remainder # None /\ Arg # <<>> /\ ~Has(NL, Arg))
            => (writer' = writer /\ remainder' = Some(remainder[1] \o Arg)) ]_vars

\* C15, amended: a write of non-empty bytes without '\n' to an adapter
\* whose pending remainder is r forwards nothing and leaves the remainder
\* equal to r followed by the lossy UTF-8 decoding of the new bytes (the
\* new bytes themselves when they are valid UTF-8).
OpenLineGrows ==
    [][ (Succeeds("write") /\ remainder # None /\ Arg # <<>> /\ ~Has(NL, Arg))
            => ( /\ writer' = writer
                 /\ remainder' = Some(remainder[1] \o from_utf8_lossy(Arg)) ) ]_vars

OpenLineGrowsWitness ==
    /\ Shape(<<"write", "write">>)
    /\ log[1].buf = <<97>>
    /\ log[2].buf = <<INVALID, CR>>
    /\ writer = <<>>
    /\ remainder = Some(<<97>> \o REPLACEMENT \o <<CR>>)

\* C16: flush leaves the adapter's own state unchanged: the pending
\* remainder and the prefix are after any flush call what they were
\* before it.
FlushKeepsState ==
    [][ Calls("flush") => (remainder' = remainder /\ prefix' = prefix) ]_vars

FlushKeepsStateWitness ==
    /\ Shape(<<"write", "flush">>)
    /\ prefix # <<>>
    /\ log[1].buf = <<97, NL, 97>>
    /\ remainder = Some(<<97>>)
    /\ writer = prefix \o <<97, NL>> \o prefix \o <<97, FLUSH>>

\* C17: a flush call that forwards the prefix and the remainder without
\* failure (or has nothing to forward) requests the sink's flush exactly
\* once, after those bytes, and forwards nothing else: no '\n' is added.
FlushRequestsSinkFlushLast ==
    [][ Calls("flush") =>
          LET due == IF Pending # <<>> THEN prefix \o Pending ELSE <<>>
          IN  /\ Succeeds("flush") => Added = due \o <<FLUSH>>
              /\ AddedBytes = due =>
                     (Added = due \o <<FLUSH>> \/ Added = due \o <<ERR>>) ]_vars

FlushRequestsSinkFlushLastWitness ==
    /\ Shape(<<"write", "flush", "flush">>)
    /\ prefix # <<>>
    /\ log[1].buf = <<97>>
    /\ writer = prefix \o <<97, FLUSH>> \o prefix \o <<97, FLUSH>>

\* C18: when a write call fails because the sink rejected a request, the
\* pending remainder is what it was before the call and what the sink
\* accepted before the failure stays in it; the remainder changes only in
\* calls that succeed.
FailedWriteKeepsRemainder ==
    [][ /\ Fails("write") =>
               ( /\ remainder' = remainder
                 /\ StartsWith(writer', writer)
                 /\ ends_with(writer', ERR) )
        /\ (Calls("write") /\ remainder' # remainder) => Succeeds("write") ]_vars

FailedWriteKeepsRemainderWitness ==
    /\ Len(log) = 1
    /\ LastCall.op = "write"
    /\ ~LastCall.ok
    /\ LastCall.buf = <<NL, NL, 97>>
    /\ writer = <<NL, ERR>>
    /\ remainder = None

\* C19: the adapter neither adds nor drops line terminators.  With a
\* prefix that holds no '\n', after any sequence of successful write and
\* flush calls the sink holds as many '\n' bytes as the write arguments.
TerminatorsPreserved ==
    (PlainRun /\ ~Has(NL, prefix)) =>
        Count(NL, SinkBytes) = Count(NL, WrittenBytes)

TerminatorsPreservedWitness ==
    /\ Shape(<<"write", "flush", "write">>)
    /\ prefix # <<>>
    /\ log[1].buf = <<97>>
    /\ log[3].buf = <<NL, NL>>
    /\ Count(NL, SinkBytes) = 2
    /\ remainder = Some(<<97>>)

\* C20: a present remainder is never empty and holds no '\n'.
RemainderNeverEmpty ==
    remainder # None => (remainder[1] # <<>> /\ ~Has(NL, remainder[1]))

RemainderNeverEmptyWitness ==
    /\ Len(log) = 2
    /\ log[1].op = "write"
    /\ log[1].buf = <<NL, CR>>
    /\ LastCall.op = "flush"
    /\ remainder = Some(<<CR>>)

====
